---- MODULE Spec2Model ----
(***************************************************************************)
(* Model of wsp/scripts/plot.py: the script loads initial.csv and wsp.csv  *)
(* into two numeric arrays and scatters both on one pair of axes.          *)
(*                                                                         *)
(* One action per statement of the script (LineN models line N).  pc is    *)
(* the line about to run; status tells whether the interpreter is still    *)
(* running, has exited normally, or has stopped on an uncaught exception   *)
(* (pc then stays at the raising line and exc names the exception).        *)
(* The rows a csv reader yields are inputs, drawn when the reader is       *)
(* advanced; which files exist and which NumPy is installed are fixed at   *)
(* start.                                                                  *)
(***************************************************************************)
EXTENDS Integers, Sequences, FiniteSets, TLC

VARIABLES pc, status, exc, exists, numpy, handles, fd, reader, exhausted,
          rowsRead, row, data_initial, data_wsp, stdout, ax, scatterCalls,
          legendCalls, showCalls, openLog, fsWrites, events

vars == <<pc, status, exc, exists, numpy, handles, fd, reader, exhausted,
          rowsRead, row, data_initial, data_wsp, stdout, ax, scatterCalls,
          legendCalls, showCalls, openLog, fsWrites, events>>

-----------------------------------------------------------------------------
(* Bounds of the inputs. *)

\* most rows a reader yields before it is exhausted
MaxRows == 2
\* most fields in one row
MaxCols == 3

-----------------------------------------------------------------------------
(* The two file names and the texts their fields are drawn from. *)

INITIAL_CSV == "initial.csv"
WSP_CSV == "wsp.csv"
FileNames == {INITIAL_CSV, WSP_CSV}

DigitChars == <<"0", "1", "2", "3", "4", "5", "6", "7", "8", "9">>
Digits == {DigitChars[i] : i \in 1..10}
DigitChar(n) == DigitChars[n + 1]
DigitValue(ch) == CHOOSE n \in 0..9 : DigitChars[n + 1] = ch

\* A float-parsable field text, different for every (file, row, column):
\* "r.c" in initial.csv and "-r.c" in wsp.csv, with the blank that follows
\* the comma in "a, b" from the second column on.
GoodText(f, r, c) ==
    (IF c >= 2 THEN <<" ">> ELSE <<>>)
        \o (IF f = WSP_CSV THEN <<"-">> ELSE <<>>)
        \o <<DigitChar(r), ".", DigitChar(c)>>

\* A field text float() rejects: the empty field (odd columns), or a
\* number followed by a letter (even columns).
BadText(r, c) == IF c % 2 = 1 THEN <<>> ELSE <<DigitChar(r), "x">>

\* The rows the reader of f may yield as its r-th row: k fields, those at
\* the columns in bad malformed.
RowText(f, r, k, bad) ==
    [c \in 1..k |-> IF c \in bad THEN BadText(r, c) ELSE GoodText(f, r, c)]

\* every field text of every row
FieldTexts ==
    {GoodText(f, r, c) : f \in FileNames, r \in 1..MaxRows, c \in 1..MaxCols}
        \cup {BadText(r, c) : r \in 1..MaxRows, c \in 1..MaxCols}

RowChoices(f, r) ==
    UNION {{RowText(f, r, k, bad) : bad \in SUBSET (1..k)} : k \in 0..MaxCols}

-----------------------------------------------------------------------------
(* float(): the conversion of one field.  Over the alphabet of the field   *)
(* texts above (digits, sign, point, blank, letter x) it is Python's: the  *)
(* text is stripped, an optional sign is read, then digits with at most    *)
(* one point and at least one digit; anything else raises ValueError.      *)
(* The value is the decimal m * 10^(-e), normalised (1.50 = 1.5).          *)

ValueError == [tag |-> "exception", type |-> "ValueError"]
IndexError == [tag |-> "exception", type |-> "IndexError"]
FileNotFoundError == [tag |-> "exception", type |-> "FileNotFoundError"]
ReadError == [tag |-> "exception", type |-> "ReadError"]
UnsupportedOperation == [tag |-> "exception", type |-> "UnsupportedOperation"]
Raises(v) == v.tag = "exception"

RECURSIVE lstrip(_)
lstrip(s) == IF s # <<>> /\ Head(s) = " " THEN lstrip(Tail(s)) ELSE s

RECURSIVE rstrip(_)
rstrip(s) ==
    IF s # <<>> /\ s[Len(s)] = " " THEN rstrip(SubSeq(s, 1, Len(s) - 1)) ELSE s

strip(s) == rstrip(lstrip(s))

RECURSIVE Normalise(_, _)
Normalise(m, e) ==
    IF e > 0 /\ m % 10 = 0 THEN Normalise(m \div 10, e - 1)
    ELSE [tag |-> "float", m |-> m, e |-> e]

\* the digits of u from position i on, read into the decimal m * 10^(-e);
\* seen: a digit was read; frac: the point was read
RECURSIVE ScanDigits(_, _, _, _, _, _)
ScanDigits(u, i, m, e, seen, frac) ==
    IF i > Len(u)
    THEN IF seen THEN [tag |-> "float", m |-> m, e |-> e] ELSE ValueError
    ELSE IF u[i] \in Digits
    THEN ScanDigits(u, i + 1, 10 * m + DigitValue(u[i]),
                    IF frac THEN e + 1 ELSE e, TRUE, frac)
    ELSE IF u[i] = "." /\ ~frac
    THEN ScanDigits(u, i + 1, m, e, seen, TRUE)
    ELSE ValueError

Signed(s, v) ==
    IF Raises(v) THEN v
    ELSE Normalise(IF Head(s) = "-" THEN 0 - v.m ELSE v.m, v.e)

FloatStripped(s) ==
    IF s # <<>> /\ Head(s) \in {"+", "-"}
    THEN Signed(s, ScanDigits(Tail(s), 1, 0, 0, FALSE, FALSE))
    ELSE Signed(<<"+">>, ScanDigits(s, 1, 0, 0, FALSE, FALSE))

float_from_string(text) == FloatStripped(strip(text))

\* float() of the field texts, computed once
FloatOfText == [t \in FieldTexts |-> float_from_string(t)]

float(text) ==
    IF text \in FieldTexts THEN FloatOfText[text] ELSE float_from_string(text)

\* a conversion that skips the fields float() rejects
FloatRowSkip(r) ==
    LET RECURSIVE keep(_)
        keep(t) ==
            IF t = <<>> THEN <<>>
            ELSE IF Raises(float(Head(t))) THEN keep(Tail(t))
            ELSE <<float(Head(t))>> \o keep(Tail(t))
    IN  [tag |-> "row", vals |-> keep(r)]

\* [float(i) for i in row]: the list of the converted fields, or the
\* ValueError of the first field that does not convert.
FloatRow(r) ==
    IF \E c \in 1..Len(r) : Raises(float(r[c])) THEN ValueError
    ELSE [tag |-> "row", vals |-> [c \in 1..Len(r) |-> float(r[c])]]

-----------------------------------------------------------------------------
(* Values of the script's variables. *)

Unbound == [tag |-> "unbound"]
NameError == [tag |-> "exception", type |-> "NameError"]
EmptyList == [tag |-> "list", rows |-> <<>>]

\* list.insert(0, ...) of a converted row
ListPrepend(l, r) == [tag |-> "list", rows |-> <<r.vals>> \o l.rows]

\* list.append of a converted row
ListAppend(l, r) == [tag |-> "list", rows |-> Append(l.rows, r.vals)]

RowLens(rows) == {Len(rows[i]) : i \in 1..Len(rows)}

MinLen(rows) == CHOOSE k \in RowLens(rows) : \A j \in RowLens(rows) : k <= j

\* a loader that cuts every row to the shortest row's length
np_array_truncating(l) ==
    LET rows == l.rows
        N == Len(rows)
    IN  IF N = 0
        THEN [tag |-> "ndarray", dtype |-> "float64", shape |-> <<0>>,
              rows |-> <<>>]
        ELSE [tag |-> "ndarray", dtype |-> "float64",
              shape |-> <<N, MinLen(rows)>>,
              rows |-> [i \in 1..N |-> SubSeq(rows[i], 1, MinLen(rows))]]

\* a loader that gives the empty list the shape 0 x 2
np_array_empty2d(l) ==
    LET rows == l.rows
        N == Len(rows)
    IN  IF N = 0
        THEN [tag |-> "ndarray", dtype |-> "float64", shape |-> <<0, 2>>,
              rows |-> <<>>]
        ELSE IF Cardinality(RowLens(rows)) = 1
        THEN [tag |-> "ndarray", dtype |-> "float64",
              shape |-> <<N, Len(rows[1])>>, rows |-> rows]
        ELSE IF numpy = "strict" THEN ValueError
        ELSE [tag |-> "ndarray", dtype |-> "object", shape |-> <<N>>,
              rows |-> rows]

\* np.array(list of lists of floats).  No rows: the empty 1-d array.  Rows
\* of one length k: the N x k float array.  Rows of different lengths:
\* ValueError (inhomogeneous shape) in NumPy from 1.24 on ("strict"), the
\* 1-d array of N list objects before ("legacy").
np_array(l) ==
    LET rows == l.rows
        N == Len(rows)
    IN  IF N = 0
        THEN [tag |-> "ndarray", dtype |-> "float64", shape |-> <<0>>,
              rows |-> <<>>]
        ELSE IF Cardinality(RowLens(rows)) = 1
        THEN [tag |-> "ndarray", dtype |-> "float64",
              shape |-> <<N, Len(rows[1])>>, rows |-> rows]
        ELSE IF numpy = "strict" THEN ValueError
        ELSE [tag |-> "ndarray", dtype |-> "object", shape |-> <<N>>,
              rows |-> rows]

\* an indexing that checks the array has exactly two columns
ColumnStrict(a, j) ==
    IF a.tag # "ndarray" THEN NameError
    ELSE IF Len(a.shape) # 2 THEN IndexError
    ELSE IF a.shape[2] # 2 THEN IndexError
    ELSE [tag |-> "column", vals |-> [i \in 1..a.shape[1] |-> a.rows[i][j + 1]]]

\* a[:, j] with j counted from 0 as in the script: IndexError unless a has
\* two dimensions and more than j columns.
Column(a, j) ==
    IF a.tag # "ndarray" THEN NameError
    ELSE IF Len(a.shape) # 2 THEN IndexError
    ELSE IF j >= a.shape[2] THEN IndexError
    ELSE [tag |-> "column", vals |-> [i \in 1..a.shape[1] |-> a.rows[i][j + 1]]]

-----------------------------------------------------------------------------
(* Control flow. *)

Running == status = "running"
At(l) == Running /\ pc = l

\* a script in which plt.show() is written before plt.legend()
afterShowFirst(l) ==
    CASE l = 6 -> 7 [] l = 7 -> 8 [] l = 8 -> 9 [] l = 9 -> 10 [] l = 10 -> 9
      [] l = 11 -> 12 [] l = 12 -> 14 [] l = 14 -> 15 [] l = 15 -> 16
      [] l = 16 -> 17 [] l = 17 -> 18 [] l = 18 -> 17 [] l = 19 -> 22
      [] l = 22 -> 23 [] l = 23 -> 24 [] l = 24 -> 26 [] l = 26 -> 25
      [] l = 25 -> 0

\* the statement that runs after statement l (0: the end of the script):
\* the next one down, a for loop's head after its body, and for a for
\* loop's head the body (the loop's exit is loopExit)
after(l) ==
    CASE l = 6 -> 7 [] l = 7 -> 8 [] l = 8 -> 9 [] l = 9 -> 10 [] l = 10 -> 9
      [] l = 11 -> 12 [] l = 12 -> 14 [] l = 14 -> 15 [] l = 15 -> 16
      [] l = 16 -> 17 [] l = 17 -> 18 [] l = 18 -> 17 [] l = 19 -> 22
      [] l = 22 -> 23 [] l = 23 -> 24 [] l = 24 -> 25 [] l = 25 -> 26
      [] l = 26 -> 0

\* the statement that runs when the for loop at l is exhausted
loopExit(l) == CASE l = 9 -> 11 [] l = 17 -> 19

Goto(l) ==
    /\ exc' = exc
    /\ IF l = 0 THEN pc' = pc /\ status' = "exited"
       ELSE pc' = l /\ status' = status

Continue == Goto(after(pc))

\* an exception swallowed by a try/except around the statement
RaiseSwallowed(e) == Goto(after(pc))

\* an uncaught exception: the interpreter stops at the raising line
Raise(e) == pc' = pc /\ status' = "raised" /\ exc' = e.type

\* a file closed by a close() call after the loop, which an exception skips
WithExitLeak(h, f, raising) == IF raising THEN h ELSE [h EXCEPT ![f] = "closed"]

\* leaving a with block, normally or on an exception, closes its file
WithExit(h, f, raising) == [h EXCEPT ![f] = "closed"]

\* a file opened for writing
OpenModeWrite == "w"

\* the mode open() is called with: none is passed, so the default
OpenMode == "r"

fsVars == <<exists, fsWrites>>
readVars == <<reader, exhausted, rowsRead, row>>
dataVars == <<data_initial, data_wsp, stdout>>
plotVars == <<ax, scatterCalls, legendCalls, showCalls>>

Init ==
    /\ pc = 6
    /\ status = "running"
    /\ exc = "None"
    /\ exists \in [FileNames -> BOOLEAN]
    /\ numpy \in {"strict", "legacy"}
    /\ handles = [f \in FileNames |-> "unopened"]
    /\ fd = "None"
    /\ reader = "None"
    /\ exhausted = [f \in FileNames |-> FALSE]
    /\ rowsRead = [f \in FileNames |-> <<>>]
    /\ row = <<>>
    /\ data_initial = Unbound
    /\ data_wsp = Unbound
    /\ stdout = <<>>
    /\ ax = FALSE
    /\ scatterCalls = <<>>
    /\ legendCalls = 0
    /\ showCalls = 0
    /\ openLog = <<>>
    /\ fsWrites = {}
    /\ events = <<>>

-----------------------------------------------------------------------------
(* The statements. *)

\* with open(f) as fd:
Open(f) ==
    /\ openLog' = Append(openLog, [name |-> f, mode |-> OpenMode])
    /\ IF OpenMode = "r" /\ ~exists[f]
       THEN /\ Raise(FileNotFoundError)
            /\ UNCHANGED <<handles, fd, exists, fsWrites, events>>
       ELSE /\ handles' = [handles EXCEPT ![f] = "open"]
            /\ fd' = f
            /\ events' = Append(events, <<"open", f>>)
            /\ IF OpenMode = "r" THEN UNCHANGED fsVars
               ELSE /\ exists' = [exists EXCEPT ![f] = TRUE]
                    /\ fsWrites' = fsWrites \cup {f}
            /\ Continue
    /\ UNCHANGED <<numpy, readVars, dataVars, plotVars>>

\* reader = csv.reader(fd)
MakeReader ==
    /\ reader' = fd
    /\ Continue
    /\ UNCHANGED <<fsVars, numpy, handles, fd, exhausted, rowsRead, row,
                   dataVars, plotVars, openLog, events>>

\* for row in reader: the reader is exhausted and the with block is left,
\* or reading fails (undecodable bytes, csv.Error), or the reader yields
\* the next row.
ForRow(f) ==
    /\ reader = f
    /\ UNCHANGED <<fsVars, numpy, fd, reader, dataVars, plotVars, openLog>>
    /\ IF OpenMode # "r"
       THEN /\ Raise(UnsupportedOperation)
            /\ handles' = WithExit(handles, f, TRUE)
            /\ UNCHANGED <<exhausted, rowsRead, row, events>>
       ELSE \/ /\ exhausted' = [exhausted EXCEPT ![f] = TRUE]
               /\ handles' = WithExit(handles, f, FALSE)
               /\ events' = Append(events, <<"close", f>>)
               /\ Goto(loopExit(pc))
               /\ UNCHANGED <<rowsRead, row>>
            \/ /\ Raise(ReadError)
               /\ handles' = WithExit(handles, f, TRUE)
               /\ UNCHANGED <<exhausted, rowsRead, row, events>>
            \/ /\ Len(rowsRead[f]) < MaxRows
               /\ \E r \in RowChoices(f, Len(rowsRead[f]) + 1) :
                      /\ row' = r
                      /\ rowsRead' = [rowsRead EXCEPT ![f] = Append(@, r)]
               /\ events' = Append(events, <<"next", f>>)
               /\ Continue
               /\ UNCHANGED <<handles, exhausted>>

Line6 ==
    /\ At(6)
    /\ data_initial' = EmptyList
    /\ Continue
    /\ UNCHANGED <<fsVars, numpy, handles, fd, readVars, data_wsp, stdout,
                   plotVars, openLog, events>>

Line7 == At(7) /\ Open(INITIAL_CSV)

Line8 == At(8) /\ MakeReader

Line9 == At(9) /\ ForRow(INITIAL_CSV)

Line10 ==
    /\ At(10)
    /\ LET v == FloatRow(row)
       IN  IF Raises(v)
           THEN /\ Raise(v)
                /\ handles' = WithExit(handles, INITIAL_CSV, TRUE)
                /\ UNCHANGED <<data_initial, events>>
           ELSE /\ data_initial' = ListAppend(data_initial, v)
                /\ events' = Append(events, <<"float", INITIAL_CSV>>)
                /\ Continue
                /\ UNCHANGED handles
    /\ UNCHANGED <<fsVars, numpy, fd, readVars, data_wsp, stdout, plotVars,
                   openLog>>

Line11 ==
    /\ At(11)
    /\ LET a == np_array(data_initial)
       IN  IF Raises(a)
           THEN Raise(a) /\ UNCHANGED <<data_initial, events>>
           ELSE /\ data_initial' = a
                /\ events' = Append(events, <<"array", INITIAL_CSV>>)
                /\ Continue
    /\ UNCHANGED <<fsVars, numpy, handles, fd, readVars, data_wsp, stdout,
                   plotVars, openLog>>

Line12 ==
    /\ At(12)
    /\ stdout' = Append(stdout, data_initial)
    /\ events' = Append(events, <<"print", INITIAL_CSV>>)
    /\ Continue
    /\ UNCHANGED <<fsVars, numpy, handles, fd, readVars, data_initial,
                   data_wsp, plotVars, openLog>>

Line14 ==
    /\ At(14)
    /\ data_wsp' = EmptyList
    /\ Continue
    /\ UNCHANGED <<fsVars, numpy, handles, fd, readVars, data_initial, stdout,
                   plotVars, openLog, events>>

Line15 == At(15) /\ Open(WSP_CSV)

Line16 == At(16) /\ MakeReader

Line17 == At(17) /\ ForRow(WSP_CSV)

Line18 ==
    /\ At(18)
    /\ LET v == FloatRow(row)
       IN  IF Raises(v)
           THEN /\ Raise(v)
                /\ handles' = WithExit(handles, WSP_CSV, TRUE)
                /\ UNCHANGED <<data_wsp, events>>
           ELSE /\ data_wsp' = ListAppend(data_wsp, v)
                /\ events' = Append(events, <<"float", WSP_CSV>>)
                /\ Continue
                /\ UNCHANGED handles
    /\ UNCHANGED <<fsVars, numpy, fd, readVars, data_initial, stdout,
                   plotVars, openLog>>

Line19 ==
    /\ At(19)
    /\ LET a == np_array(data_wsp)
       IN  IF Raises(a)
           THEN Raise(a) /\ UNCHANGED <<data_wsp, events>>
           ELSE /\ data_wsp' = a
                /\ events' = Append(events, <<"array", WSP_CSV>>)
                /\ Continue
    /\ UNCHANGED <<fsVars, numpy, handles, fd, readVars, data_initial, stdout,
                   plotVars, openLog>>

\* fig, ax = plt.subplots()
Line22 ==
    /\ At(22)
    /\ ax' = TRUE
    /\ events' = Append(events, <<"subplots">>)
    /\ Continue
    /\ UNCHANGED <<fsVars, numpy, handles, fd, readVars, dataVars,
                   scatterCalls, legendCalls, showCalls, openLog>>

\* a scatter call with the two columns exchanged
ScatterYX(a, label, marker) ==
    LET x == Column(a, 1)
        y == Column(a, 0)
    IN  /\ IF Raises(x) THEN Raise(x) /\ UNCHANGED <<scatterCalls, events>>
           ELSE IF Raises(y) THEN Raise(y) /\ UNCHANGED <<scatterCalls, events>>
           ELSE /\ scatterCalls' =
                       Append(scatterCalls,
                              [x |-> x.vals, y |-> y.vals, label |-> label,
                               marker |-> marker])
                /\ events' = Append(events, <<"scatter", label>>)
                /\ Goto(after(pc))
        /\ UNCHANGED <<fsVars, numpy, handles, fd, readVars, dataVars, ax,
                       legendCalls, showCalls, openLog>>

\* ax.scatter(a[:, 0], a[:, 1], label=..., marker=...): the arguments are
\* evaluated left to right, then the call is made
Scatter(a, label, marker) ==
    LET x == Column(a, 0)
        y == Column(a, 1)
    IN  /\ IF Raises(x) THEN Raise(x) /\ UNCHANGED <<scatterCalls, events>>
           ELSE IF Raises(y) THEN Raise(y) /\ UNCHANGED <<scatterCalls, events>>
           ELSE /\ scatterCalls' =
                       Append(scatterCalls,
                              [x |-> x.vals, y |-> y.vals, label |-> label,
                               marker |-> marker])
                /\ events' = Append(events, <<"scatter", label>>)
                /\ Continue
        /\ UNCHANGED <<fsVars, numpy, handles, fd, readVars, dataVars, ax,
                       legendCalls, showCalls, openLog>>

Line23 == At(23) /\ Scatter(data_initial, "Initial", "default")

Line24 == At(24) /\ Scatter(data_wsp, "WSP", "+")

\* plt.legend()
Line25 ==
    /\ At(25)
    /\ legendCalls' = legendCalls + 1
    /\ events' = Append(events, <<"legend">>)
    /\ Continue
    /\ UNCHANGED <<fsVars, numpy, handles, fd, readVars, dataVars, ax,
                   scatterCalls, showCalls, openLog>>

\* plt.show()
Line26 ==
    /\ At(26)
    /\ showCalls' = showCalls + 1
    /\ events' = Append(events, <<"show">>)
    /\ Continue
    /\ UNCHANGED <<fsVars, numpy, handles, fd, readVars, dataVars, ax,
                   scatterCalls, legendCalls, openLog>>

Next ==
    \/ Line6 \/ Line7 \/ Line8 \/ Line9 \/ Line10 \/ Line11 \/ Line12
    \/ Line14 \/ Line15 \/ Line16 \/ Line17 \/ Line18 \/ Line19
    \/ Line22 \/ Line23 \/ Line24 \/ Line25 \/ Line26

Spec == Init /\ [][Next]_vars

-----------------------------------------------------------------------------
(* Vocabulary of the properties. *)

Raised == status = "raised"
Exited == status = "exited"

\* the script's variable that holds the data of file f
Arr(f) == IF f = INITIAL_CSV THEN data_initial ELSE data_wsp
\* the label the data of file f is plotted under
LabelOf(f) == IF f = INITIAL_CSV THEN "Initial" ELSE "WSP"
\* the line of the conversion in the loop over file f
BodyLine(f) == IF f = INITIAL_CSV THEN 10 ELSE 18
Built(f) == Arr(f).tag = "ndarray"

NRows(f) == Len(rowsRead[f])
HasBadField(r) == \E c \in 1..Len(r) : Raises(float(r[c]))
AllParse(f) == \A i \in 1..NRows(f) : ~HasBadField(rowsRead[f][i])
Ragged(f) == Cardinality(RowLens(rowsRead[f])) > 1
\* f was read to its end and every row had exactly k float-parsable fields
WellFormed(f, k) ==
    /\ exhausted[f]
    /\ \A i \in 1..NRows(f) : Len(rowsRead[f][i]) = k
    /\ AllParse(f)
\* the values of the rows read from f, in file order
Values(f) ==
    [i \in 1..NRows(f) |->
        [c \in 1..Len(rowsRead[f][i]) |-> float(rowsRead[f][i][c])]]
\* column c (counted from 1) of the values of f
ValueColumn(f, c) == [i \in 1..NRows(f) |-> float(rowsRead[f][i][c])]

IsPrefix(s, t) == Len(s) <= Len(t) /\ SubSeq(t, 1, Len(s)) = s

\* the script neither hangs nor stops silently: while it runs, a statement
\* is enabled
NoHang == Running => ENABLED Next

-----------------------------------------------------------------------------
(* C1 *)

\* C1 as stated, for every N: the array built from a file read to its end
\* whose N rows all have exactly two float-parsable fields has shape N x 2
\* and holds the rows' values in file order.
C1_AnyN ==
    \A f \in FileNames :
        (Built(f) /\ WellFormed(f, 2)) =>
            /\ Arr(f).shape = <<NRows(f), 2>>
            /\ Arr(f).rows = Values(f)

\* C1, amended: the same for N >= 1 (no rows give the 1-d shape (0,)).
C1_Shape ==
    \A f \in FileNames :
        (Built(f) /\ WellFormed(f, 2) /\ NRows(f) >= 1) =>
            /\ Arr(f).shape = <<NRows(f), 2>>
            /\ Arr(f).dtype = "float64"
            /\ Arr(f).rows = Values(f)

C1_Witness ==
    \A f \in FileNames : Built(f) /\ WellFormed(f, 2) /\ NRows(f) = 2

-----------------------------------------------------------------------------
(* C2 *)

\* C2: there are never more than two scatter calls, and once the display
\* call is reached there have been exactly two: the first with columns 0
\* and 1 of the initial data, label "Initial" and the default marker, the
\* second with columns 0 and 1 of the wsp data, label "WSP" and marker "+".
C2_TwoScatters ==
    /\ Len(scatterCalls) <= 2
    /\ (pc = 26 \/ showCalls > 0) =>
           scatterCalls =
               << [x |-> ValueColumn(INITIAL_CSV, 1),
                   y |-> ValueColumn(INITIAL_CSV, 2),
                   label |-> "Initial", marker |-> "default"],
                  [x |-> ValueColumn(WSP_CSV, 1),
                   y |-> ValueColumn(WSP_CSV, 2),
                   label |-> "WSP", marker |-> "+"] >>

C2_Witness == Exited /\ showCalls = 1 /\ Len(scatterCalls) = 2

-----------------------------------------------------------------------------
(* C3 *)

RECURSIVE RowSteps(_, _)
RowSteps(f, n) ==
    IF n = 0 THEN <<>> ELSE <<<<"next", f>>, <<"float", f>>>> \o RowSteps(f, n - 1)

LoadSteps(f, n) ==
    <<<<"open", f>>>> \o RowSteps(f, n) \o <<<<"close", f>>, <<"array", f>>>>

\* the steps of a complete run over n1 rows of initial.csv and n2 of wsp.csv
FixedOrder(n1, n2) ==
    LoadSteps(INITIAL_CSV, n1) \o <<<<"print", INITIAL_CSV>>>>
        \o LoadSteps(WSP_CSV, n2)
        \o <<<<"subplots">>, <<"scatter", "Initial">>, <<"scatter", "WSP">>,
             <<"legend">>, <<"show">>>>

\* C3: the steps taken so far are always the first steps of the one fixed
\* order (open, rows read and converted, close, array, for initial.csv;
\* print; the same for wsp.csv; subplots, scatter, scatter, legend, show),
\* and a run that exits has taken all of them; no scatter call comes before
\* both files are read to the end and both arrays are built, and the
\* display comes only after both scatter calls and the legend call.
C3_FixedOrder ==
    /\ \E n1 \in NRows(INITIAL_CSV)..MaxRows : \E n2 \in NRows(WSP_CSV)..MaxRows :
           IsPrefix(events, FixedOrder(n1, n2))
    /\ Exited => events = FixedOrder(NRows(INITIAL_CSV), NRows(WSP_CSV))
    /\ scatterCalls # <<>> =>
           \A f \in FileNames : exhausted[f] /\ Built(f) /\ handles[f] = "closed"
    /\ showCalls > 0 => Len(scatterCalls) = 2 /\ legendCalls = 1
    /\ showCalls <= 1 /\ legendCalls <= 1 /\ Len(stdout) <= 1

C3_Witness ==
    /\ Exited
    /\ NRows(INITIAL_CSV) = 2
    /\ NRows(WSP_CSV) = 1
    /\ events[Len(events)] = <<"show">>

-----------------------------------------------------------------------------
(* C4 *)

Opens(f) == {i \in 1..Len(openLog) : openLog[i].name = f}

\* C4: a missing file is never opened, no scatter or display call is made
\* in a run where a file is missing, and the run does not exit normally;
\* open is tried at most once; the run stops at the open of the missing
\* file with FileNotFoundError, at line 7 for initial.csv, and at line 15
\* for wsp.csv, where initial.csv has been read to its end, closed, made an
\* array and printed.
C4_MissingFile ==
    /\ \A f \in FileNames :
           ~exists[f] =>
               /\ handles[f] = "unopened"
               /\ Cardinality(Opens(f)) <= 1
               /\ scatterCalls = <<>>
               /\ showCalls = 0
               /\ ~Exited
               /\ Opens(f) # {} =>
                      Raised /\ exc = "FileNotFoundError" /\ openLog[Len(openLog)].name = f
    /\ ~exists[INITIAL_CSV] =>
           /\ pc \in {6, 7}
           /\ Raised => pc = 7
    /\ (~exists[WSP_CSV] /\ Opens(WSP_CSV) # {}) =>
           /\ pc = 15
           /\ exhausted[INITIAL_CSV]
           /\ handles[INITIAL_CSV] = "closed"
           /\ Built(INITIAL_CSV)
           /\ stdout = <<data_initial>>
    /\ NoHang

C4_Witness ==
    /\ exists[INITIAL_CSV] /\ ~exists[WSP_CSV]
    /\ Raised /\ pc = 15 /\ exc = "FileNotFoundError"
    /\ NRows(INITIAL_CSV) = 2

-----------------------------------------------------------------------------
(* C5 *)

\* C5: when the reader has yielded a row with a field float() rejects, that
\* row is the last one read from its file; the script is at the conversion
\* of that row (lines 10, 18) and either about to run it or stopped there
\* with ValueError; the rows converted are those before it; the file's
\* array is never built, the file is not read to its end, and no scatter or
\* display call is made and the run does not exit normally.
C5_BadField ==
    /\ \A f \in FileNames : \A i \in 1..NRows(f) :
           HasBadField(rowsRead[f][i]) =>
               /\ i = NRows(f)
               /\ pc = BodyLine(f)
               /\ Running \/ (Raised /\ exc = "ValueError")
               /\ Arr(f).tag = "list"
               /\ Arr(f).rows = SubSeq(Values(f), 1, i - 1)
               /\ ~exhausted[f]
               /\ scatterCalls = <<>>
               /\ showCalls = 0
               /\ ~Exited
    /\ \A f \in FileNames :
           (Running /\ pc = BodyLine(f) /\ HasBadField(row)) =>
               ENABLED (Next /\ status' = "raised" /\ exc' = "ValueError")
    /\ NoHang

C5_Witness ==
    /\ Raised /\ exc = "ValueError" /\ pc = 18
    /\ NRows(WSP_CSV) = 2
    /\ HasBadField(rowsRead[WSP_CSV][2])
    /\ Len(rowsRead[WSP_CSV][2]) = 2

-----------------------------------------------------------------------------
(* C6 *)

ScatteredLabels == {scatterCalls[i].label : i \in 1..Len(scatterCalls)}

\* C6: once the rows read from a file differ in their number of fields, the
\* display call is never reached and the run does not exit normally; the
\* file's data is never passed to scatter, whole or cut; if its array is
\* built at all it is not two-dimensional; and the run does not hang, so it
\* ends on an uncaught exception.
C6_Ragged ==
    /\ \A f \in FileNames :
           Ragged(f) =>
               /\ showCalls = 0
               /\ pc # 26
               /\ ~Exited
               /\ LabelOf(f) \notin ScatteredLabels
               /\ Built(f) => Len(Arr(f).shape) # 2
    /\ NoHang

C6_Witness ==
    /\ Raised
    /\ \A f \in FileNames : AllParse(f) /\ exhausted[f] /\ NRows(f) >= 1
    /\ ~Ragged(INITIAL_CSV)
    /\ Ragged(WSP_CSV)
    /\ \A i \in 1..NRows(WSP_CSV) : Len(rowsRead[WSP_CSV][i]) >= 2

-----------------------------------------------------------------------------
(* C7 *)

\* C7: every open is of initial.csv or wsp.csv and for reading, initial.csv
\* first and each at most once, and no file is ever created or written.
C7_ReadOnly ==
    /\ \A i \in 1..Len(openLog) :
           openLog[i].name \in FileNames /\ openLog[i].mode = "r"
    /\ IsPrefix([i \in 1..Len(openLog) |-> openLog[i].name],
                <<INITIAL_CSV, WSP_CSV>>)
    /\ fsWrites = {}
    /\ \A f \in FileNames : handles[f] # "unopened" => exists[f]

C7_Witness == Exited /\ Len(openLog) = 2 /\ showCalls = 1

-----------------------------------------------------------------------------
(* C8 *)

\* the file f was read to its end and has N >= 1 rows of k float-parsable
\* fields each
Table(f, k) == WellFormed(f, k) /\ NRows(f) >= 1

\* C8: a file of N >= 1 rows of k > 2 float fields each gives an array of
\* shape N x k holding all its values, raises nothing at its loading, and
\* the scatter call for it gets columns 0 and 1 only; when both files are
\* such tables of at least 2 columns, whatever their row and column counts,
\* the run raises nothing and goes on to the display call.
C8_NoShapeCheck ==
    /\ \A f \in FileNames : \A k \in 3..MaxCols :
           Table(f, k) =>
               /\ ~(Raised /\ pc \in {BodyLine(f), BodyLine(f) + 1})
               /\ Built(f) =>
                      /\ Arr(f).shape = <<NRows(f), k>>
                      /\ Arr(f).rows = Values(f)
               /\ \A i \in 1..Len(scatterCalls) :
                      scatterCalls[i].label = LabelOf(f) =>
                          /\ scatterCalls[i].x = ValueColumn(f, 1)
                          /\ scatterCalls[i].y = ValueColumn(f, 2)
    /\ (\A f \in FileNames : \E k \in 2..MaxCols : Table(f, k)) =>
           /\ ~Raised
           /\ Exited => showCalls = 1 /\ Len(scatterCalls) = 2
    /\ NoHang

C8_Witness ==
    /\ Exited
    /\ showCalls = 1
    /\ Table(INITIAL_CSV, 3) /\ NRows(INITIAL_CSV) = 2
    /\ Table(WSP_CSV, 2) /\ NRows(WSP_CSV) = 1

-----------------------------------------------------------------------------
(* C9 *)

OpenFiles == {f \in FileNames : handles[f] = "open"}

\* C9: at most one file is open at a time; initial.csv is open only while
\* the script runs inside its with block (lines 8 to 10) and wsp.csv only
\* inside its own (lines 16 to 18), so both are closed when the script has
\* stopped on an exception, at the open of wsp.csv, at the scatter calls and
\* at the display call.
C9_OneOpenFile ==
    /\ Cardinality(OpenFiles) <= 1
    /\ handles[INITIAL_CSV] = "open" => Running /\ pc \in {8, 9, 10}
    /\ handles[WSP_CSV] = "open" => Running /\ pc \in {16, 17, 18}
    /\ pc >= 11 => handles[INITIAL_CSV] = "closed"
    /\ pc >= 19 => handles[WSP_CSV] = "closed"

C9_Witness ==
    /\ Raised /\ pc = 18 /\ exc = "ValueError"
    /\ handles = [f \in FileNames |-> "closed"]

-----------------------------------------------------------------------------
(* C10 *)

\* f exists and its reader yielded no row
Empty(f) == exhausted[f] /\ NRows(f) = 0

\* C10: a file with no rows raises nothing at its loading: its array is the
\* 1-d array of shape (0,); after an empty initial.csv the script still
\* loads wsp.csv, and a failure before line 23 is one of that loading; the
\* run then stops with IndexError at the scatter call of the empty data
\* (line 23 for initial.csv; line 24 for wsp.csv, or line 23 already), so
\* the display call is never reached.
C10_EmptyFile ==
    /\ \A f \in FileNames :
           Empty(f) =>
               /\ ~(Raised /\ pc \in {BodyLine(f), BodyLine(f) + 1})
               /\ Built(f) => Arr(f).shape = <<0>>
               /\ LabelOf(f) \notin ScatteredLabels
               /\ showCalls = 0
               /\ pc # 26
               /\ ~Exited
    /\ (Empty(INITIAL_CSV) /\ Raised) =>
           /\ pc \in 15..23
           /\ pc = 23 =>
                  /\ exc = "IndexError"
                  /\ exhausted[WSP_CSV] /\ Built(WSP_CSV)
                  /\ scatterCalls = <<>>
    /\ (Empty(WSP_CSV) /\ Raised) =>
           /\ pc \in {23, 24}
           /\ exc = "IndexError"
           /\ (pc = 24 /\ ~Empty(INITIAL_CSV)) => Len(scatterCalls) = 1
    /\ NoHang

C10_Witness ==
    /\ Raised /\ exc = "IndexError" /\ pc = 24
    /\ Empty(WSP_CSV)
    /\ Len(scatterCalls) = 1

====
